---------------------------- MODULE Spec2Model ----------------------------
(***************************************************************************)
(* The per-user sliding-window rate limiter of AI-Courtroom                *)
(* (server/app/utils/rate_limiter.py) and the routes that use it.          *)
(*                                                                         *)
(* Time is an integer number of clock ticks.  Every request runs in its    *)
(* own coroutine; each await on the store (delete, find, insert) is one    *)
(* step, and other requests and the clock may move between two steps.      *)
(***************************************************************************)
EXTENDS Integers, Sequences, FiniteSets

\* ------------------------------------------------------------------ bounds
NumProcs == 2       \* request-handling coroutines that can be in flight at once
MaxTime == 3        \* the clock stops ticking here
MaxRequests == 3    \* requests started in one behaviour
\* settings.* are read from the environment; the model scales them down
ArgumentRateLimit == 1
ArgumentRateWindow == 2
CaseGenerationRateLimit == 2
CaseGenerationRateWindow == 2
MaxEntries == 2         \* entries a find returns to the wait computation
ISTOffset == 2          \* the UTC offset of Asia/Kolkata, in clock ticks
TicksPerSecond == 2     \* a wait is a whole number of these parts of a second
MaxWaitSeconds == 7300  \* the longest wait formatted
MaxQuota == 3           \* the largest `requests` a limiter is configured with
NumHandlers == 2        \* witness requests on the case in flight at once
NumTasks == 2           \* background cross-examinations that can be scheduled
NumWitnesses == 2       \* parties of the case that can be called
MaxWitnessRequests == 4 \* witness requests made on the case
MaxQuestions == 1       \* questions_to_ask of a cross-examination
\* the literals of the duration breakdown
SecondsPerHour == 3600
SecondsPerMinute == 60

Procs == 1..NumProcs
Users == {"u1", "u2"}

ARG == "argument_rate_limiter"
GEN == "case_generation_rate_limiter"
LimiterTypes == {ARG, GEN}

\* the routes of the model and the limiter instance each one uses
Ops == {"submit_argument", "generate_new_case",
        "get_argument_rate_limit", "get_case_generation_rate_limit"}

LimiterOf(o) ==
    IF o \in {"submit_argument", "get_argument_rate_limit"} THEN ARG ELSE GEN

\* RateLimiter.requests / RateLimiter.window of the two module-level instances
Requests(T) == IF T = ARG THEN ArgumentRateLimit ELSE CaseGenerationRateLimit
Window(T) == IF T = ARG THEN ArgumentRateWindow ELSE CaseGenerationRateWindow

VARIABLES
    clock,      \* what get_current_datetime() returns
    store,      \* the rate_limit_entries collection: a set of RateLimitEntry
    pc,         \* pc[p]: where request p stands
    op,         \* op[p]: the route of request p
    user,       \* user[p]: str(user.id) of request p
    now,        \* now[p]: the local `now` of the limiter method p runs
    new_entry,  \* new_entry[p]: the RateLimitEntry p constructed, not yet inserted
    result,     \* result[p]: what the request returns
    started,    \* number of requests started so far
    serial,     \* TRUE: the requests of one (user, limiter) come one after another
    \* history, for stating the properties
    wrote,      \* wrote[p]: request p has inserted a RateLimitEntry
    expiredAtStart, \* the entries of p's (user, type) that were expired when p started
    overlapped, \* the (user, limiter) pairs that have had two requests in flight at once
    log,        \* log[u][T]: the accept / reject decisions for (u, T), in order
                \* (kept when the requests are serial)
    ran,        \* ran[p]: the route handler guarded by the limiter has started
    store_error,    \* store_error[p]: the store step of p that raised, "" if none
    retry_after,    \* retry_after[u][T]: {t + w} of the last wait w reported at
                    \* time t for (u, T), {} once a call has been accepted since
                    \* (kept when the requests are serial)
    \* the wait computation and the message, as functions of their inputs
    current_entries,    \* the timestamps of the entries a find returned, in order
    reset,              \* what the computation of time_until_reset came to
    time_until_reset,   \* the wait, in ticks of 1 / TicksPerSecond seconds
    duration_str,       \* the duration in the message, as its printed parts
    requests,           \* self.requests of the limiter that is asked
    attempts,           \* what get_remaining_attempts returned
    \* the witness routes of one case
    stored_case,    \* the Case document in the cases collection
    hpc,            \* hpc[h]: where witness request h stands
    hop,            \* hop[h]: the route of witness request h
    hcase,          \* hcase[h]: the `case` object request h fetched
    hstatus,        \* hstatus[h]: the HTTP status request h ends with
    hstarted,       \* number of witness requests started so far
    tpc,            \* tpc[t]: where background task t stands
    tcase,          \* tcase[t]: the `case` object task t fetched last
    initial_witness_id, \* initial_witness_id[t] of task t
    questions_asked_count,  \* questions_asked_count[t] of task t
    dismissed       \* history: a dismissal has returned success and no
                    \* call_witness has saved since

vars == <<clock, store, pc, op, user, now, new_entry, result,
          started, serial, wrote, expiredAtStart, overlapped, log,
          ran, store_error, retry_after,
          current_entries, reset, time_until_reset, duration_str,
          requests, attempts,
          stored_case, hpc, hop, hcase, hstatus, hstarted,
          tpc, tcase, initial_witness_id, questions_asked_count, dismissed>>

\* the variables of the witness routes
witnessVars == <<stored_case, hpc, hop, hcase, hstatus, hstarted,
                 tpc, tcase, initial_witness_id, questions_asked_count,
                 dismissed>>

\* the variables of the wait computation and of the message, and those of
\* the witness routes, which no step of a rate-limited request touches
fnVars == <<current_entries, reset, time_until_reset, duration_str,
            requests, attempts, witnessVars>>

procVars == <<pc, op, user, now, new_entry, result, wrote,
              expiredAtStart, ran>>

\* ------------------------------------------------------------- RateLimitEntry
NoEntry == [id |-> 0, user_id |-> "", rate_limiter_type |-> "",
            timestamp |-> 0, expiration_time |-> 0]

\* The _id of a document tells it from the documents with the same fields: the
\* documents with these fields in the store or in a request's hands, and the
\* first number none of them has.
SameFields(u, T, ts, exp) ==
    {e \in store \cup {new_entry[p] : p \in Procs}
               \cup UNION {expiredAtStart[p] : p \in Procs} :
        /\ e.user_id = u /\ e.rate_limiter_type = T
        /\ e.timestamp = ts /\ e.expiration_time = exp}

FreshId(u, T, ts, exp) ==
    CHOOSE i \in 1..(Cardinality(SameFields(u, T, ts, exp)) + 1) :
        \A e \in SameFields(u, T, ts, exp) : e.id # i

\* RateLimitEntry(user_id=..., rate_limiter_type=..., expiration_time=now+window):
\* timestamp is filled by its default_factory, get_current_datetime(), when the
\* object is constructed
RateLimitEntry(u, T, t) ==
    [id |-> FreshId(u, T, clock, t + Window(T)), user_id |-> u,
     rate_limiter_type |-> T, timestamp |-> clock,
     expiration_time |-> t + Window(T)]

NoResult == [status |-> 0, remaining |-> 0, has_wait |-> FALSE, wait |-> 0,
             detail |-> <<>>]

\* no wait computed yet
NoReset == [done |-> FALSE, raised |-> FALSE, wait |-> 0]

\* ------------------------------------------------------------- store queries
\* (mutants of ExpiredEntries: the window added twice; `<` for `<=`; the wrong field)
ExpiredEntriesDoubleWindow(s, u, T, t) ==
    {e \in s : /\ e.user_id = u /\ e.rate_limiter_type = T
               /\ e.expiration_time + Window(T) <= t}

ExpiredEntriesStrict(s, u, T, t) ==
    {e \in s : e.user_id = u /\ e.rate_limiter_type = T /\ e.expiration_time < t}

ExpiredEntriesByTimestamp(s, u, T, t) ==
    {e \in s : e.user_id = u /\ e.rate_limiter_type = T /\ e.timestamp <= t}

\* (mutant of ExpiredEntries: the user_id condition left out)
ExpiredEntriesAnyUser(s, u, T, t) ==
    {e \in s : e.rate_limiter_type = T /\ e.expiration_time <= t}

\* RateLimitEntry.find(user_id == u, rate_limiter_type == T, expiration_time <= t)
ExpiredEntries(s, u, T, t) ==
    {e \in s : e.user_id = u /\ e.rate_limiter_type = T /\ e.expiration_time <= t}

\* (mutant of FindEntries: user_id compared with a value no entry holds, as
\* with the ObjectId in place of its str: nothing is found)
FindEntriesNoMatch(s, u, T) ==
    {e \in s : e.user_id = "none" /\ e.rate_limiter_type = T}

\* (mutant of FindEntries: the rate_limiter_type condition left out)
FindEntriesAnyType(s, u, T) ==
    {e \in s : e.user_id = u}

\* RateLimitEntry.find(user_id == u, rate_limiter_type == T).to_list()
FindEntries(s, u, T) ==
    {e \in s : e.user_id = u /\ e.rate_limiter_type = T}

\* min(current_entries, key=lambda entry: entry.timestamp)
OldestEntry(es) ==
    CHOOSE e \in es : \A f \in es : e.timestamp <= f.timestamp

\* (mutant of TimeUntilReset: the window left out)
TimeUntilResetNoWindow(es, T, t) == OldestEntry(es).timestamp - t

\* (oldest_timestamp + timedelta(seconds=self.window) - now).total_seconds()
TimeUntilReset(es, T, t) == OldestEntry(es).timestamp + Window(T) - t

\* (mutant of QuotaReached: `>` for `>=`)
QuotaReachedStrict(es, T) == Cardinality(es) > Requests(T)

\* len(current_entries) >= self.requests
QuotaReached(es, T) == Cardinality(es) >= Requests(T)

\* (mutant of Remaining: the max(0, ...) left out)
RemainingUnclamped(es, T) == Requests(T) - Cardinality(es)

\* remaining = max(0, self.requests - len(valid_entries))
Remaining(es, T) ==
    IF Requests(T) - Cardinality(es) > 0 THEN Requests(T) - Cardinality(es) ELSE 0

\* ------------------------------------------------------------- datetimes
\* A datetime is its wall-clock reading and, if it is aware, the UTC offset of
\* its zone.  The driver hands back naive datetimes that read UTC; an aware one
\* may be in any zone.
Offsets == {0 - 1, 0, ISTOffset}

Naive(i) == [aware |-> FALSE, wall |-> i, utcoffset |-> 0]
Aware(i, off) == [aware |-> TRUE, wall |-> i + off, utcoffset |-> off]

\* get_current_datetime(): datetime.now(pytz.timezone('Asia/Kolkata')) at instant t
CurrentDatetime(t) == Aware(t, ISTOffset)

\* naive: pytz.utc.localize(dt); then dt.astimezone(ist)
ensure_ist_timezone(dt) ==
    LET utc == IF dt.aware THEN dt.wall - dt.utcoffset ELSE dt.wall
    IN [aware |-> TRUE, wall |-> utc + ISTOffset, utcoffset |-> ISTOffset]

\* a < b of two datetimes that can be compared: two naive ones by their
\* readings, two aware ones by their instants
Earlier(a, b) ==
    IF a.aware THEN a.wall - a.utcoffset < b.wall - b.utcoffset
               ELSE a.wall < b.wall

\* min(current_entries, key=lambda entry: entry.timestamp): the items are
\* compared in order with the smallest so far; comparing a naive datetime with
\* an aware one raises TypeError
RECURSIVE MinFrom(_, _, _)
MinFrom(ts, i, best) ==
    IF i > Len(ts) THEN [raised |-> FALSE, value |-> best]
    ELSE IF ts[i].aware # best.aware THEN [raised |-> TRUE, value |-> best]
    ELSE MinFrom(ts, i + 1, IF Earlier(ts[i], best) THEN ts[i] ELSE best)

\* oldest_timestamp = ensure_ist_timezone(oldest_entry.timestamp)
\* time_until_reset = (oldest_timestamp + timedelta(seconds=window) - now)
\* for the timestamps ts of the entries found, at instant t: the difference of
\* two aware datetimes is the difference of their instants
ComputedReset(ts, W, t) ==
    LET m == MinFrom(ts, 2, ts[1])
        oldest_timestamp == ensure_ist_timezone(m.value)
        n == CurrentDatetime(t)
    IN IF m.raised
       THEN [done |-> TRUE, raised |-> TRUE, wait |-> 0]
       ELSE [done |-> TRUE, raised |-> FALSE,
             wait |-> (oldest_timestamp.wall + W - oldest_timestamp.utcoffset)
                         - (n.wall - n.utcoffset)]

\* --------------------------------------------------------- the wait message
\* (mutant of DurationStr: the minutes taken from the whole wait)
DurationStrTotalMinutes(w) ==
    LET hours == w \div (SecondsPerHour * TicksPerSecond)
        remainder == w % (SecondsPerHour * TicksPerSecond)
        minutes == w \div (SecondsPerMinute * TicksPerSecond)
        seconds == remainder % (SecondsPerMinute * TicksPerSecond)
    IN (IF hours > 0 THEN <<[n |-> hours, unit |-> "hours"]>> ELSE <<>>)
       \o (IF minutes > 0 THEN <<[n |-> minutes, unit |-> "minutes"]>> ELSE <<>>)
       \o <<[n |-> seconds \div TicksPerSecond, unit |-> "seconds"]>>

\* hours, remainder = divmod(time_until_reset, 3600)
\* minutes, seconds = divmod(remainder, 60)
\* duration_str: "{int(hours)} hours " if hours > 0, "{int(minutes)} minutes "
\* if minutes > 0, then "{int(seconds)} seconds".  w is the wait in ticks of
\* 1 / TicksPerSecond seconds; divmod floors, int() drops the fraction of the
\* seconds, which are never negative.
DurationStr(w) ==
    LET hours == w \div (SecondsPerHour * TicksPerSecond)
        remainder == w % (SecondsPerHour * TicksPerSecond)
        minutes == remainder \div (SecondsPerMinute * TicksPerSecond)
        seconds == remainder % (SecondsPerMinute * TicksPerSecond)
    IN (IF hours > 0 THEN <<[n |-> hours, unit |-> "hours"]>> ELSE <<>>)
       \o (IF minutes > 0 THEN <<[n |-> minutes, unit |-> "minutes"]>> ELSE <<>>)
       \o <<[n |-> seconds \div TicksPerSecond, unit |-> "seconds"]>>

\* ------------------------------------------------------------------ Init
Handlers == 1..NumHandlers
Tasks == 1..NumTasks
Witnesses == 1..NumWitnesses

\* The fields of a Case the witness routes read and write.  The case is ACTIVE
\* and belongs to the user; current_witness_id 0 is None; a testimony is its
\* witness_id and whether ended_at is set.
NewCase == [current_witness_id |-> 0, is_ai_examining |-> FALSE,
            witness_testimonies |-> <<>>]

\* the case exists with no witness called, no request and no task is running
NoWitnessRequest ==
    /\ stored_case = NewCase
    /\ hpc = [h \in Handlers |-> "idle"]
    /\ hop = [h \in Handlers |-> "none"]
    /\ hcase = [h \in Handlers |-> NewCase]
    /\ hstatus = [h \in Handlers |-> 0]
    /\ hstarted = 0
    /\ tpc = [t \in Tasks |-> "idle"]
    /\ tcase = [t \in Tasks |-> NewCase]
    /\ initial_witness_id = [t \in Tasks |-> 0]
    /\ questions_asked_count = [t \in Tasks |-> 0]
    /\ dismissed = FALSE

Start ==
    /\ NoWitnessRequest
    /\ started = 0
    /\ store = {}
    /\ pc = [p \in Procs |-> "idle"]
    /\ op = [p \in Procs |-> "none"]
    /\ user = [p \in Procs |-> "none"]
    /\ now = [p \in Procs |-> 0]
    /\ new_entry = [p \in Procs |-> NoEntry]
    /\ result = [p \in Procs |-> NoResult]
    /\ wrote = [p \in Procs |-> FALSE]
    /\ expiredAtStart = [p \in Procs |-> {}]
    /\ overlapped = {}
    /\ log = [u \in Users |-> [T \in LimiterTypes |-> <<>>]]
    /\ ran = [p \in Procs |-> FALSE]
    /\ store_error = [p \in Procs |-> ""]
    /\ retry_after = [u \in Users |-> [T \in LimiterTypes |-> {}]]

NoAttempts == [done |-> FALSE, raised |-> FALSE, remaining |-> 0,
               has_wait |-> FALSE, wait |-> 0]

\* no wait is being computed, no message formatted
NoCall ==
    /\ current_entries = <<>>
    /\ reset = NoReset
    /\ time_until_reset = 0
    /\ duration_str = <<>>
    /\ requests = 0
    /\ attempts = NoAttempts

\* the server starts on an empty collection
Init == Start /\ clock = 0 /\ serial = FALSE /\ NoCall

SerialInit == Start /\ clock = 0 /\ serial = TRUE /\ NoCall

Logged(u, T, t, ok) ==
    IF serial
    THEN [log EXCEPT ![u][T] = Append(@, [now |-> t, accepted |-> ok])]
    ELSE log

\* the wait r.wait reported at time t for (u, T), if r reports one
Reported(u, T, t, r) ==
    IF serial /\ r.has_wait
    THEN [retry_after EXCEPT ![u][T] = {t + r.wait}]
    ELSE retry_after

\* the entry of an accepted call of (u, T) is stored
Accepted(u, T) ==
    IF serial THEN [retry_after EXCEPT ![u][T] = {}] ELSE retry_after

\* ------------------------------------------------------------------ actions
\* the passing of time
Tick ==
    /\ clock < MaxTime
    /\ clock' = clock + 1
    /\ UNCHANGED <<store, procVars, started, serial, overlapped, log,
                   store_error, retry_after, fnVars>>

\* the requests of user u on limiter T that have not returned yet
InFlight(u, T) ==
    {q \in Procs : pc[q] # "idle" /\ user[q] = u /\ LimiterOf(op[q]) = T}

\* A request arrives, is given the first free coroutine slot, and the limiter
\* method it depends on reads `now`.
Begin(p, o, u) ==
    /\ pc[p] = "idle"
    /\ \A q \in Procs : q < p => pc[q] # "idle"
    /\ started < MaxRequests
    /\ started' = started + 1
    /\ started = 0 => u = "u1"     \* the users are interchangeable
    /\ serial => InFlight(u, LimiterOf(o)) = {}
    /\ op' = [op EXCEPT ![p] = o]
    /\ user' = [user EXCEPT ![p] = u]
    /\ now' = [now EXCEPT ![p] = clock]
    /\ pc' = [pc EXCEPT ![p] = "purge"]
    /\ expiredAtStart' = [expiredAtStart EXCEPT ![p] =
            {e \in store : /\ e.user_id = u
                           /\ e.rate_limiter_type = LimiterOf(o)
                           /\ e.expiration_time <= clock}]
    /\ overlapped' = IF InFlight(u, LimiterOf(o)) # {}
                     THEN overlapped \cup {<<u, LimiterOf(o)>>}
                     ELSE overlapped
    /\ UNCHANGED <<clock, store, new_entry, result, serial, wrote, log,
                   ran, store_error, retry_after, fnVars>>

\* await RateLimitEntry.find(..., expiration_time <= now).delete()
Purge(p) ==
    /\ pc[p] = "purge"
    /\ store' = store \ ExpiredEntries(store, user[p], LimiterOf(op[p]), now[p])
    /\ pc' = [pc EXCEPT ![p] = "find"]
    /\ UNCHANGED <<clock, op, user, now, new_entry, result, started, serial,
                   wrote, expiredAtStart, overlapped, log,
                   ran, store_error, retry_after, fnVars>>

\* The request's dependency or handler returns or raises: the response r is
\* what is left of it, the locals of the limiter method are gone.
Respond(p, r) ==
    /\ pc' = [pc EXCEPT ![p] = "done"]
    /\ result' = [result EXCEPT ![p] = r]
    /\ now' = [now EXCEPT ![p] = 0]
    /\ new_entry' = [new_entry EXCEPT ![p] = NoEntry]
    /\ expiredAtStart' = [expiredAtStart EXCEPT ![p] = {}]

\* what get_remaining_attempts returns on the entries es its find returned
RemainingAttempts(es, T, t) ==
    IF Remaining(es, T) = 0 /\ es # {}
    THEN [status |-> 200, remaining |-> 0, has_wait |-> TRUE,
          wait |-> TimeUntilReset(es, T, t), detail |-> <<>>]
    ELSE [status |-> 200, remaining |-> Remaining(es, T),
          has_wait |-> FALSE, wait |-> 0, detail |-> <<>>]

\* get_remaining_attempts from its find to its return, and the endpoint's reply
GetRemainingAttempts(p) ==
    /\ pc[p] = "find"
    /\ op[p] \in {"get_argument_rate_limit", "get_case_generation_rate_limit"}
    /\ LET T == LimiterOf(op[p])
           r == RemainingAttempts(FindEntries(store, user[p], T), T, now[p])
       IN /\ Respond(p, r)
          /\ retry_after' = Reported(user[p], T, now[p], r)
    /\ UNCHANGED <<clock, store, op, user, started, serial, wrote, overlapped, log,
                   ran, store_error, fnVars>>

\* (mutant of QuotaExceeded: a bare rejection, no wait in the message)
QuotaExceededBare(es, T, t) ==
    [status |-> 429, remaining |-> 0, has_wait |-> FALSE, wait |-> 0,
     detail |-> <<>>]

\* the HTTPException(status_code=429) of check_only and __call__; a clock tick
\* of the model stands for one second
QuotaExceeded(es, T, t) ==
    [status |-> 429, remaining |-> 0, has_wait |-> TRUE,
     wait |-> TimeUntilReset(es, T, t),
     detail |-> DurationStr(TicksPerSecond * TimeUntilReset(es, T, t))]

\* (mutant of Call: the quota check left out)
CallUnchecked(p) ==
    /\ pc[p] = "find"
    /\ op[p] = "submit_argument"
    /\ new_entry' = [new_entry EXCEPT
            ![p] = RateLimitEntry(user[p], LimiterOf(op[p]), now[p])]
    /\ pc' = [pc EXCEPT ![p] = "insert"]
    /\ UNCHANGED <<clock, store, op, user, now, result, started, serial, wrote,
                   expiredAtStart, overlapped, log, ran, store_error,
                   retry_after, fnVars>>

\* (mutant of Call: the rejected call is recorded as an entry too)
CallRecordingRejected(p) ==
    /\ pc[p] = "find"
    /\ op[p] = "submit_argument"
    /\ LET T == LimiterOf(op[p])
           es == FindEntries(store, user[p], T)
       IN IF QuotaReached(es, T)
          THEN /\ store' = store \cup {RateLimitEntry(user[p], T, now[p])}
               /\ Respond(p, QuotaExceeded(es, T, now[p]))
               /\ log' = Logged(user[p], T, now[p], FALSE)
               /\ retry_after' = Reported(user[p], T, now[p],
                                          QuotaExceeded(es, T, now[p]))
          ELSE /\ new_entry' = [new_entry EXCEPT
                        ![p] = RateLimitEntry(user[p], T, now[p])]
               /\ pc' = [pc EXCEPT ![p] = "insert"]
               /\ UNCHANGED <<store, result, now, expiredAtStart, log, retry_after>>
    /\ UNCHANGED <<clock, op, user, started, serial, wrote, overlapped,
                   ran, store_error, fnVars>>

\* __call__ from its find to the construction of new_entry (no await between)
Call(p) ==
    /\ pc[p] = "find"
    /\ op[p] = "submit_argument"
    /\ LET T == LimiterOf(op[p])
           es == FindEntries(store, user[p], T)
       IN IF QuotaReached(es, T)
          THEN /\ Respond(p, QuotaExceeded(es, T, now[p]))
               /\ log' = Logged(user[p], T, now[p], FALSE)
               /\ retry_after' = Reported(user[p], T, now[p],
                                          QuotaExceeded(es, T, now[p]))
          ELSE /\ new_entry' = [new_entry EXCEPT
                        ![p] = RateLimitEntry(user[p], T, now[p])]
               /\ pc' = [pc EXCEPT ![p] = "insert"]
               /\ UNCHANGED <<result, now, expiredAtStart, log, retry_after>>
    /\ UNCHANGED <<clock, store, op, user, started, serial, wrote, overlapped,
                   ran, store_error, fnVars>>

\* (mutant of CheckOnly: a passed check inserts an entry, as __call__ does)
CheckOnlyConsuming(p) ==
    /\ pc[p] = "find"
    /\ op[p] = "generate_new_case"
    /\ LET T == LimiterOf(op[p])
           es == FindEntries(store, user[p], T)
       IN IF QuotaReached(es, T)
          THEN /\ Respond(p, QuotaExceeded(es, T, now[p]))
               /\ log' = Logged(user[p], T, now[p], FALSE)
               /\ retry_after' = Reported(user[p], T, now[p],
                                          QuotaExceeded(es, T, now[p]))
               /\ UNCHANGED <<store, ran>>
          ELSE /\ store' = store \cup {RateLimitEntry(user[p], T, now[p])}
               /\ pc' = [pc EXCEPT ![p] = "generate_case"]
               /\ ran' = [ran EXCEPT ![p] = TRUE]
               /\ retry_after' = Accepted(user[p], T)
               /\ UNCHANGED <<result, now, new_entry, expiredAtStart, log>>
    /\ UNCHANGED <<clock, op, user, started, serial, wrote, overlapped,
                   store_error, fnVars>>

\* check_only from its find to its return or its HTTPException
CheckOnly(p) ==
    /\ pc[p] = "find"
    /\ op[p] = "generate_new_case"
    /\ LET T == LimiterOf(op[p])
           es == FindEntries(store, user[p], T)
       IN IF QuotaReached(es, T)
          THEN /\ Respond(p, QuotaExceeded(es, T, now[p]))
               /\ log' = Logged(user[p], T, now[p], FALSE)
               /\ retry_after' = Reported(user[p], T, now[p],
                                          QuotaExceeded(es, T, now[p]))
               /\ UNCHANGED ran
          ELSE /\ pc' = [pc EXCEPT ![p] = "generate_case"]
               /\ ran' = [ran EXCEPT ![p] = TRUE]
               /\ UNCHANGED <<result, now, new_entry, expiredAtStart, log,
                              retry_after>>
    /\ UNCHANGED <<clock, store, op, user, started, serial, wrote, overlapped,
                   store_error, fnVars>>

\* (mutant of Insert: an insert-if-below-quota, which drops the entry when the
\* quota has been reached since the check)
InsertIfBelowQuota(p) ==
    /\ pc[p] = "insert"
    /\ LET T == LimiterOf(op[p])
           full == Cardinality(FindEntries(store, user[p], T)) >= Requests(T)
       IN /\ store' = IF full THEN store ELSE store \cup {new_entry[p]}
          /\ wrote' = [wrote EXCEPT ![p] = ~full]
          /\ log' = Logged(user[p], T, new_entry[p].expiration_time - Window(T), ~full)
    /\ IF op[p] = "submit_argument"
       THEN /\ pc' = [pc EXCEPT ![p] = "handler"]
            /\ new_entry' = [new_entry EXCEPT ![p] = NoEntry]
            /\ ran' = [ran EXCEPT ![p] = TRUE]
            /\ UNCHANGED <<result, now, expiredAtStart>>
       ELSE /\ Respond(p, [NoResult EXCEPT !.status = 201])
            /\ UNCHANGED ran
    /\ retry_after' = Accepted(user[p], LimiterOf(op[p]))
    /\ UNCHANGED <<clock, op, user, started, serial, overlapped,
                   store_error, fnVars>>

\* (mutant of Insert: the user's entries of the limiter are replaced by the new
\* one, as an update in place of the user's record would do)
InsertReplacing(p) ==
    /\ pc[p] = "insert"
    /\ store' = (store \ FindEntries(store, user[p], LimiterOf(op[p])))
                    \cup {new_entry[p]}
    /\ wrote' = [wrote EXCEPT ![p] = TRUE]
    /\ log' = Logged(user[p], LimiterOf(op[p]),
                     new_entry[p].expiration_time - Window(LimiterOf(op[p])), TRUE)
    /\ IF op[p] = "submit_argument"
       THEN /\ pc' = [pc EXCEPT ![p] = "handler"]
            /\ new_entry' = [new_entry EXCEPT ![p] = NoEntry]
            /\ ran' = [ran EXCEPT ![p] = TRUE]
            /\ UNCHANGED <<result, now, expiredAtStart>>
       ELSE /\ Respond(p, [NoResult EXCEPT !.status = 201])
            /\ UNCHANGED ran
    /\ retry_after' = Accepted(user[p], LimiterOf(op[p]))
    /\ UNCHANGED <<clock, op, user, started, serial, overlapped,
                   store_error, fnVars>>

\* await new_entry.insert(), of __call__ and of register_usage
Insert(p) ==
    /\ pc[p] = "insert"
    /\ store' = store \cup {new_entry[p]}
    /\ wrote' = [wrote EXCEPT ![p] = TRUE]
    /\ log' = Logged(user[p], LimiterOf(op[p]),
                     new_entry[p].expiration_time - Window(LimiterOf(op[p])), TRUE)
    /\ IF op[p] = "submit_argument"
       THEN /\ pc' = [pc EXCEPT ![p] = "handler"]
            /\ new_entry' = [new_entry EXCEPT ![p] = NoEntry]
            /\ ran' = [ran EXCEPT ![p] = TRUE]
            /\ UNCHANGED <<result, now, expiredAtStart>>
       ELSE /\ Respond(p, [NoResult EXCEPT !.status = 201])
            /\ UNCHANGED ran
    /\ retry_after' = Accepted(user[p], LimiterOf(op[p]))
    /\ UNCHANGED <<clock, op, user, started, serial, overlapped,
                   store_error, fnVars>>

\* (mutant of Handler: a handler that ends in an error gives the attempt back,
\* removing an entry of its user from the argument limiter)
HandlerRefunding(p) ==
    /\ pc[p] = "handler"
    /\ \E s \in {200, 400, 403, 404} :
          /\ Respond(p, [NoResult EXCEPT !.status = s])
          /\ store' = IF s = 200 \/ FindEntries(store, user[p], ARG) = {}
                      THEN store
                      ELSE store \ {CHOOSE e \in FindEntries(store, user[p], ARG) :
                                        TRUE}
    /\ UNCHANGED <<clock, op, user, started, serial, wrote, overlapped, log,
                   ran, store_error, retry_after, fnVars>>

\* the body of submit_argument / submit_closing_statement, run after the
\* dependency: it ends in a reply or in an HTTPException
Handler(p) ==
    /\ pc[p] = "handler"
    /\ \E s \in {200, 400, 403, 404} : Respond(p, [NoResult EXCEPT !.status = s])
    /\ UNCHANGED <<clock, store, op, user, started, serial, wrote, overlapped, log,
                   ran, store_error, retry_after, fnVars>>

\* generate_new_case: await generate_case(...) returns
GenerateCaseOk(p) ==
    /\ pc[p] = "generate_case"
    /\ pc' = [pc EXCEPT ![p] = "case_insert"]
    /\ UNCHANGED <<clock, store, op, user, now, new_entry, result,
                   started, serial, wrote, expiredAtStart, overlapped, log,
                   ran, store_error, retry_after, fnVars>>

\* (mutant of Failed: the usage is registered although the generation failed)
FailedConsuming(p) ==
    /\ pc[p] \in {"generate_case", "case_insert"}
    /\ store' = store \cup {RateLimitEntry(user[p], LimiterOf(op[p]), clock)}
    /\ wrote' = [wrote EXCEPT ![p] = TRUE]
    /\ Respond(p, [NoResult EXCEPT !.status = 500])
    /\ UNCHANGED <<clock, op, user, started, serial, overlapped, log,
                   ran, store_error, retry_after, fnVars>>

\* generate_new_case: generate_case raises, or case.insert() raises
Failed(p) ==
    /\ pc[p] \in {"generate_case", "case_insert"}
    /\ Respond(p, [NoResult EXCEPT !.status = 500])
    /\ UNCHANGED <<clock, store, op, user, started, serial, wrote, overlapped, log,
                   ran, store_error, retry_after, fnVars>>

\* (mutant of RegisterUsage: the usage is registered only while the user has
\* fewer than `requests` entries)
RegisterUsageIfBelowQuota(p) ==
    /\ pc[p] = "case_insert"
    /\ IF QuotaReached(FindEntries(store, user[p], LimiterOf(op[p])),
                       LimiterOf(op[p]))
       THEN Respond(p, [NoResult EXCEPT !.status = 201])
       ELSE /\ now' = [now EXCEPT ![p] = clock]
            /\ new_entry' = [new_entry EXCEPT
                    ![p] = RateLimitEntry(user[p], LimiterOf(op[p]), clock)]
            /\ pc' = [pc EXCEPT ![p] = "insert"]
            /\ UNCHANGED <<result, expiredAtStart>>
    /\ UNCHANGED <<clock, store, op, user, started, serial,
                   wrote, overlapped, log,
                   ran, store_error, retry_after, fnVars>>

\* generate_new_case: case.insert() returns and register_usage runs up to its
\* insert: it reads now and constructs the entry with no await between
RegisterUsage(p) ==
    /\ pc[p] = "case_insert"
    /\ now' = [now EXCEPT ![p] = clock]
    /\ new_entry' = [new_entry EXCEPT
            ![p] = RateLimitEntry(user[p], LimiterOf(op[p]), clock)]
    /\ pc' = [pc EXCEPT ![p] = "insert"]
    /\ UNCHANGED <<clock, store, op, user, result, started, serial,
                   wrote, expiredAtStart, overlapped, log,
                   ran, store_error, retry_after, fnVars>>

\* the response is sent; the coroutine ends
Return(p) ==
    /\ pc[p] = "done"
    /\ pc' = [pc EXCEPT ![p] = "idle"]
    /\ op' = [op EXCEPT ![p] = "none"]
    /\ user' = [user EXCEPT ![p] = "none"]
    /\ result' = [result EXCEPT ![p] = NoResult]
    /\ wrote' = [wrote EXCEPT ![p] = FALSE]
    /\ ran' = [ran EXCEPT ![p] = FALSE]
    /\ store_error' = [store_error EXCEPT ![p] = ""]
    /\ UNCHANGED <<clock, store, now, new_entry, started, serial, expiredAtStart,
                   overlapped, log, retry_after, fnVars>>

Step(p) ==
    \/ Purge(p)
    \/ GetRemainingAttempts(p)
    \/ Call(p)
    \/ CheckOnly(p)
    \/ Insert(p)
    \/ Handler(p)
    \/ GenerateCaseOk(p)
    \/ Failed(p)
    \/ RegisterUsage(p)

\* A finished request's response is sent before anything else happens: Return
\* touches nothing another request reads.
Next ==
    \/ /\ \A q \in Procs : pc[q] # "done"
       /\ \/ Tick
          \/ \E p \in Procs, o \in Ops, u \in Users : Begin(p, o, u)
          \/ \E p \in Procs : Step(p)
    \/ \E p \in Procs : Return(p)

\* any interleaving of the requests
Spec == Init /\ [][Next]_vars

\* --------------------------------------------- the wait, as a function
\* the timestamps a find can return at instant t: those of entries made at most
\* a window ago, naive or aware, in the order the store returns them
TimestampsAt(t) ==
    LET D == {Naive(i) : i \in {j \in 0..t : j + ArgumentRateWindow > t}}
               \cup {Aware(i, off) : i \in {j \in 0..t : j + ArgumentRateWindow > t},
                                     off \in Offsets}
    IN UNION {[1..n -> D] : n \in 1..MaxEntries}

TimezoneInit ==
    /\ Start /\ serial = FALSE
    /\ clock \in 0..MaxTime
    /\ current_entries \in TimestampsAt(clock)
    /\ reset = NoReset
    /\ time_until_reset = 0
    /\ duration_str = <<>>
    /\ requests = 0
    /\ attempts = NoAttempts

\* the branch of get_remaining_attempts, check_only and __call__ that computes
\* time_until_reset from the entries found
ComputeTimeUntilReset ==
    /\ ~reset.done
    /\ current_entries # <<>>
    /\ reset' = ComputedReset(current_entries, ArgumentRateWindow, clock)
    /\ UNCHANGED <<clock, store, procVars, started, serial, overlapped, log,
                   store_error, retry_after,
                   current_entries, time_until_reset, duration_str,
                   requests, attempts, witnessVars>>

TimezoneNext == ComputeTimeUntilReset

TimezoneSpec == TimezoneInit /\ [][TimezoneNext]_vars

\* ------------------------------------------- the message, as a function
\* time_until_reset is a float of seconds; the waits formatted here are the
\* multiples of 1 / TicksPerSecond seconds up to MaxWaitSeconds, and the first
\* ones below zero
DurationInit ==
    /\ Start /\ serial = FALSE
    /\ clock = 0
    /\ current_entries = <<>>
    /\ reset = NoReset
    /\ time_until_reset \in (0 - TicksPerSecond)..(MaxWaitSeconds * TicksPerSecond)
    /\ duration_str = <<>>
    /\ requests = 0
    /\ attempts = NoAttempts

\* the lines of check_only and __call__ from the divmod to duration_str
FormatDuration ==
    /\ duration_str = <<>>
    /\ duration_str' = DurationStr(time_until_reset)
    /\ UNCHANGED <<clock, store, procVars, started, serial, overlapped, log,
                   store_error, retry_after,
                   current_entries, reset, time_until_reset,
                   requests, attempts, witnessVars>>

DurationNext == FormatDuration

DurationSpec == DurationInit /\ [][DurationNext]_vars

\* ------------------------------------------------------ the witness routes
rateLimiterVars == <<clock, store, procVars, started, serial, overlapped, log,
                     store_error, retry_after,
                     current_entries, reset, time_until_reset, duration_str,
                     requests, attempts>>

\* the positions of the testimonies of witness w that have not ended
OpenTestimonies(c, w) ==
    {i \in 1..Len(c.witness_testimonies) :
        /\ c.witness_testimonies[i].witness_id = w
        /\ ~c.witness_testimonies[i].ended}

\* get_current_testimony(case) is not None
HasCurrentTestimony(c) ==
    c.current_witness_id # 0 /\ OpenTestimonies(c, c.current_witness_id) # {}

\* for i, t in enumerate(case.witness_testimonies): if t.witness_id ==
\* case.current_witness_id and t.ended_at is None: ended_at = now; break
EndCurrentTestimony(c) ==
    LET open == OpenTestimonies(c, c.current_witness_id)
        first == CHOOSE i \in open : \A j \in open : i <= j
    IN IF open = {} THEN c.witness_testimonies
       ELSE [c.witness_testimonies EXCEPT ![first].ended = TRUE]

WitnessOps == {"call_witness", "examine_witness", "ai_cross_examine_witness",
               "conclude_witness", "dismiss_witness"}

\* the checks of a route on the case it fetched: the request is refused (400)
Refused(o, c) ==
    CASE o = "call_witness" -> c.current_witness_id # 0
      [] o = "examine_witness" ->
            c.current_witness_id = 0 \/ ~HasCurrentTestimony(c)
      [] o = "ai_cross_examine_witness" ->
            c.current_witness_id = 0 \/ c.is_ai_examining
      [] OTHER -> c.current_witness_id = 0

\* what a route makes of the case it fetched before it saves it (w: the
\* witness_id of a call_witness request)
Edited(o, c, w) ==
    CASE o = "call_witness" ->
            [c EXCEPT !.witness_testimonies =
                          Append(@, [witness_id |-> w, ended |-> FALSE]),
                      !.current_witness_id = w]
      [] o = "examine_witness" -> c
      [] o = "ai_cross_examine_witness" -> [c EXCEPT !.is_ai_examining = TRUE]
      [] o = "conclude_witness" ->
            [c EXCEPT !.witness_testimonies = EndCurrentTestimony(c),
                      !.current_witness_id = 0]
      [] OTHER ->
            [c EXCEPT !.witness_testimonies = EndCurrentTestimony(c),
                      !.current_witness_id = 0,
                      !.is_ai_examining = FALSE]

\* a request arrives (one for the AI's cross-examination only while a task
\* can still be scheduled for it)
HBegin(h, o) ==
    /\ hpc[h] = "idle"
    /\ \A g \in Handlers : g < h => hpc[g] # "idle"
    /\ hstarted < MaxWitnessRequests
    /\ o = "ai_cross_examine_witness"
          => Cardinality({t \in Tasks : tpc[t] = "idle"})
                > Cardinality({g \in Handlers : hop[g] = o})
    /\ hstarted' = hstarted + 1
    /\ hpc' = [hpc EXCEPT ![h] = "find"]
    /\ hop' = [hop EXCEPT ![h] = o]
    /\ UNCHANGED <<stored_case, hcase, hstatus, tpc, tcase, initial_witness_id,
                   questions_asked_count, dismissed, rateLimiterVars>>

\* case = await Case.find_one(Case.cnr == case_cnr), the checks of the route
\* and its changes to the object, up to the next await
HFind(h) ==
    /\ hpc[h] = "find"
    /\ IF Refused(hop[h], stored_case)
       THEN /\ hpc' = [hpc EXCEPT ![h] = "done"]
            /\ hstatus' = [hstatus EXCEPT ![h] = 400]
            /\ UNCHANGED hcase
       ELSE /\ hpc' = [hpc EXCEPT ![h] = "save"]
            /\ \E w \in Witnesses :
                  /\ (hop[h] # "call_witness"
                        \/ stored_case.witness_testimonies = <<>>) => w = 1
                  /\ hcase' = [hcase EXCEPT
                                  ![h] = Edited(hop[h], stored_case, w)]
            /\ UNCHANGED hstatus
    /\ UNCHANGED <<stored_case, hop, hstarted, tpc, tcase, initial_witness_id,
                   questions_asked_count, dismissed, rateLimiterVars>>

\* background_tasks.add_task(process_ai_cross_examination, case_cnr, 5): the
\* task starts once the response is sent
Scheduled ==
    LET t == CHOOSE u \in Tasks :
                /\ tpc[u] = "idle"
                /\ \A v \in Tasks : v < u => tpc[v] # "idle"
    IN [tpc EXCEPT ![t] = "find"]

\* await case.save() returns (for examine_witness: after the witness's answer
\* has been generated): the whole object replaces the stored document
HSave(h) ==
    /\ hpc[h] = "save"
    /\ stored_case' = hcase[h]
    /\ hpc' = [hpc EXCEPT ![h] = "done"]
    /\ hstatus' = [hstatus EXCEPT ![h] = 200]
    /\ tpc' = IF hop[h] = "ai_cross_examine_witness" THEN Scheduled ELSE tpc
    /\ dismissed' = CASE hop[h] \in {"conclude_witness", "dismiss_witness"} -> TRUE
                       [] hop[h] = "call_witness" -> FALSE
                       [] OTHER -> dismissed
    /\ UNCHANGED <<hop, hcase, hstarted, tcase, initial_witness_id,
                   questions_asked_count, rateLimiterVars>>

\* the LLM call of examine_witness or case.save() raises: status 500, nothing
\* is stored
HRaised(h) ==
    /\ hpc[h] = "save"
    /\ hpc' = [hpc EXCEPT ![h] = "done"]
    /\ hstatus' = [hstatus EXCEPT ![h] = 500]
    /\ UNCHANGED <<stored_case, hop, hcase, hstarted, tpc, tcase,
                   initial_witness_id, questions_asked_count, dismissed,
                   rateLimiterVars>>

\* the response is sent
HReturn(h) ==
    /\ hpc[h] = "done"
    /\ hpc' = [hpc EXCEPT ![h] = "idle"]
    /\ hop' = [hop EXCEPT ![h] = "none"]
    /\ hcase' = [hcase EXCEPT ![h] = NewCase]
    /\ hstatus' = [hstatus EXCEPT ![h] = 0]
    /\ UNCHANGED <<stored_case, hstarted, tpc, tcase, initial_witness_id,
                   questions_asked_count, dismissed, rateLimiterVars>>

\* process_ai_cross_examination ends: its locals are gone
Ended(t) ==
    /\ tpc' = [tpc EXCEPT ![t] = "idle"]
    /\ tcase' = [tcase EXCEPT ![t] = NewCase]
    /\ initial_witness_id' = [initial_witness_id EXCEPT ![t] = 0]
    /\ questions_asked_count' = [questions_asked_count EXCEPT ![t] = 0]

\* process_ai_cross_examination from its first find_one to its next await: no
\* witness on the stand (is_ai_examining = False, to be saved), no active
\* testimony (return, through finally), or on to the loop
TFind(t) ==
    /\ tpc[t] = "find"
    /\ tcase' = [tcase EXCEPT ![t] =
                    IF stored_case.current_witness_id = 0
                    THEN [stored_case EXCEPT !.is_ai_examining = FALSE]
                    ELSE stored_case]
    /\ tpc' = [tpc EXCEPT ![t] =
                    IF stored_case.current_witness_id = 0 THEN "save_stop"
                    ELSE IF ~HasCurrentTestimony(stored_case) THEN "finally"
                    ELSE "loop"]
    /\ initial_witness_id' = [initial_witness_id EXCEPT
                                 ![t] = stored_case.current_witness_id]
    /\ UNCHANGED <<stored_case, hpc, hop, hcase, hstatus, hstarted,
                   questions_asked_count, dismissed, rateLimiterVars>>

\* await case.save() of the branch `if not case.current_witness_id`; return
TSaveStop(t) ==
    /\ tpc[t] = "save_stop"
    /\ stored_case' = tcase[t]
    /\ Ended(t)
    /\ UNCHANGED <<hpc, hop, hcase, hstatus, hstarted, dismissed,
                   rateLimiterVars>>

\* for i in range(questions_to_ask): the re-fetch and the two checks
TLoop(t) ==
    /\ tpc[t] = "loop"
    /\ IF questions_asked_count[t] >= MaxQuestions
       THEN /\ tpc' = [tpc EXCEPT ![t] = "finally"]
            /\ UNCHANGED tcase
       ELSE /\ tcase' = [tcase EXCEPT ![t] = stored_case]
            /\ tpc' = [tpc EXCEPT ![t] =
                    IF \/ stored_case.current_witness_id # initial_witness_id[t]
                       \/ ~stored_case.is_ai_examining
                    THEN "finally" ELSE "question"]
    /\ UNCHANGED <<stored_case, hpc, hop, hcase, hstatus, hstarted,
                   initial_witness_id, questions_asked_count, dismissed,
                   rateLimiterVars>>

\* the question has been generated: the event is appended and await
\* case.save() writes the object fetched at the top of the loop
TQuestion(t) ==
    /\ tpc[t] = "question"
    /\ stored_case' = tcase[t]
    /\ tpc' = [tpc EXCEPT ![t] = "answer"]
    /\ UNCHANGED <<hpc, hop, hcase, hstatus, hstarted, tcase,
                   initial_witness_id, questions_asked_count, dismissed,
                   rateLimiterVars>>

\* the answer has been generated: item and event are appended and await
\* case.save() writes the same object again
TAnswer(t) ==
    /\ tpc[t] = "answer"
    /\ stored_case' = tcase[t]
    /\ tpc' = [tpc EXCEPT ![t] = "loop"]
    /\ questions_asked_count' = [questions_asked_count EXCEPT ![t] = @ + 1]
    /\ UNCHANGED <<hpc, hop, hcase, hstatus, hstarted, tcase,
                   initial_witness_id, dismissed, rateLimiterVars>>

\* break: should_continue_cross_examination says no, or an LLM call raises;
\* or a store call inside the try raises and `except Exception` takes it
TBreak(t) ==
    /\ tpc[t] \in {"loop", "question", "answer"}
    /\ tpc' = [tpc EXCEPT ![t] = "finally"]
    /\ UNCHANGED <<stored_case, hpc, hop, hcase, hstatus, hstarted, tcase,
                   initial_witness_id, questions_asked_count, dismissed,
                   rateLimiterVars>>

\* finally: case = await Case.find_one(...); case.is_ai_examining = False
TFinally(t) ==
    /\ tpc[t] = "finally"
    /\ tcase' = [tcase EXCEPT ![t] = [stored_case EXCEPT !.is_ai_examining = FALSE]]
    /\ tpc' = [tpc EXCEPT ![t] = "final_save"]
    /\ UNCHANGED <<stored_case, hpc, hop, hcase, hstatus, hstarted,
                   initial_witness_id, questions_asked_count, dismissed,
                   rateLimiterVars>>

\* finally: await case.save()
TFinalSave(t) ==
    /\ tpc[t] = "final_save"
    /\ stored_case' = tcase[t]
    /\ Ended(t)
    /\ UNCHANGED <<hpc, hop, hcase, hstatus, hstarted, dismissed,
                   rateLimiterVars>>

\* a store call outside the try, or in the finally block, raises: the
\* exception leaves the task
TRaised(t) ==
    /\ tpc[t] \in {"find", "save_stop", "finally", "final_save"}
    /\ Ended(t)
    /\ UNCHANGED <<stored_case, hpc, hop, hcase, hstatus, hstarted, dismissed,
                   rateLimiterVars>>

HStep(h) == HFind(h) \/ HSave(h) \/ HRaised(h)

TStep(t) ==
    \/ TFind(t)
    \/ TSaveStop(t)
    \/ TLoop(t)
    \/ TQuestion(t)
    \/ TAnswer(t)
    \/ TBreak(t)
    \/ TFinally(t)
    \/ TFinalSave(t)
    \/ TRaised(t)

\* a finished request's response is sent before anything else happens
WitnessNext ==
    \/ /\ \A g \in Handlers : hpc[g] # "done"
       /\ \/ \E h \in Handlers, o \in WitnessOps : HBegin(h, o)
          \/ \E h \in Handlers : HStep(h)
          \/ \E t \in Tasks : TStep(t)
    \/ \E h \in Handlers : HReturn(h)

\* any interleaving of the requests and the background tasks
WitnessSpec == Init /\ [][WitnessNext]_vars

\* The event loop runs every coroutine that can run, and every LLM call and
\* store call returns or raises: a request or task that can take a step takes
\* one.  Requests arrive as the user pleases.
WitnessFairSpec ==
    /\ WitnessSpec
    /\ \A h \in Handlers : WF_vars(HStep(h) \/ HReturn(h))
    /\ \A t \in Tasks : WF_vars(TStep(t))

\* ------------------------------------- get_remaining_attempts, as a function
\* (mutant of RemainingAttemptsOf: a wait is computed whenever entries exist)
RemainingAttemptsWaitWheneverEntries(ts, n, W, t) ==
    LET remaining == IF n - Len(ts) > 0 THEN n - Len(ts) ELSE 0
        r == ComputedReset(ts, W, t)
    IN IF ts # <<>>
       THEN [done |-> TRUE, raised |-> r.raised, remaining |-> remaining,
             has_wait |-> ~r.raised, wait |-> r.wait]
       ELSE [done |-> TRUE, raised |-> FALSE, remaining |-> remaining,
             has_wait |-> FALSE, wait |-> 0]

\* The lines of get_remaining_attempts after the find, for a limiter with
\* self.requests = n and self.window = W that found entries with the
\* timestamps ts at instant t: (remaining, seconds_until_next_attempt), where
\* has_wait = FALSE stands for None.
RemainingAttemptsOf(ts, n, W, t) ==
    LET remaining == IF n - Len(ts) > 0 THEN n - Len(ts) ELSE 0
        r == ComputedReset(ts, W, t)
    IN IF remaining = 0 /\ ts # <<>>
       THEN [done |-> TRUE, raised |-> r.raised, remaining |-> 0,
             has_wait |-> ~r.raised, wait |-> r.wait]
       ELSE [done |-> TRUE, raised |-> FALSE, remaining |-> remaining,
             has_wait |-> FALSE, wait |-> 0]

\* The entries a find can return at instant t: none, or up to MaxEntries
\* unexpired ones, their timestamps naive as the driver returns them.
FoundAt(t) ==
    LET D == {Naive(i) : i \in {j \in 0..t : j + ArgumentRateWindow > t}}
    IN UNION {[1..n -> D] : n \in 0..MaxEntries}

\* RATE_LIMIT settings are plain ints: any quota from 0 up can be configured
AttemptsInit ==
    /\ Start /\ serial = FALSE
    /\ clock \in 0..MaxTime
    /\ current_entries \in FoundAt(clock)
    /\ requests \in 0..MaxQuota
    /\ attempts = NoAttempts
    /\ reset = NoReset
    /\ time_until_reset = 0
    /\ duration_str = <<>>

ComputeRemainingAttempts ==
    /\ ~attempts.done
    /\ attempts' = RemainingAttemptsOf(current_entries, requests,
                                       ArgumentRateWindow, clock)
    /\ UNCHANGED <<clock, store, procVars, started, serial, overlapped, log,
                   store_error, retry_after,
                   current_entries, reset, time_until_reset, duration_str,
                   requests, witnessVars>>

AttemptsNext == ComputeRemainingAttempts

AttemptsSpec == AttemptsInit /\ [][AttemptsNext]_vars

\* --------------------------------------------------- persistence failures
\* what a store step that raises may have done to the collection: a delete or
\* an insert whose connection fails may or may not have been applied
AfterFailure(p) ==
    CASE pc[p] = "purge" ->
            {store, store \ ExpiredEntries(store, user[p], LimiterOf(op[p]), now[p])}
      [] pc[p] = "insert" -> {store, store \cup {new_entry[p]}}
      [] OTHER -> {store}

\* (mutant of StoreFails: the error is caught and reported as quota exhaustion)
StoreFailsClosed(p) ==
    /\ pc[p] \in {"purge", "find", "insert"}
    /\ store_error' = [store_error EXCEPT ![p] = pc[p]]
    /\ \E s \in AfterFailure(p) :
          /\ store' = s
          /\ wrote' = [wrote EXCEPT ![p] = (pc[p] = "insert" /\ s # store)]
    /\ Respond(p, [NoResult EXCEPT !.status = 429])
    /\ UNCHANGED <<clock, op, user, started, serial, overlapped, log,
                   ran, retry_after, fnVars>>

\* An awaited store call (the delete of the purge, the find, the insert) raises.
\* Nothing in the limiter catches it: get_argument_rate_limit and
\* get_case_generation_rate_limit turn it into HTTPException(500); out of a
\* dependency or of generate_new_case it reaches the framework, which answers
\* 500.
StoreFails(p) ==
    /\ pc[p] \in {"purge", "find", "insert"}
    /\ store_error' = [store_error EXCEPT ![p] = pc[p]]
    /\ \E s \in AfterFailure(p) :
          /\ store' = s
          /\ wrote' = [wrote EXCEPT ![p] = (pc[p] = "insert" /\ s # store)]
    /\ Respond(p, [NoResult EXCEPT !.status = 500])
    /\ UNCHANGED <<clock, op, user, started, serial, overlapped, log,
                   ran, retry_after, fnVars>>

FaultNext ==
    \/ Next
    \/ /\ \A q \in Procs : pc[q] # "done"
       /\ \E p \in Procs : StoreFails(p)

\* any interleaving of the requests, with store calls that may fail
FaultSpec == Init /\ [][FaultNext]_vars

\* the requests of one user on one limiter come one after another; requests of
\* different users, or on different limiters, interleave
SerialSpec == SerialInit /\ [][Next]_vars

\* ------------------------------------------------------------ properties
Max0(x) == IF x > 0 THEN x ELSE 0

GetOps == {"get_argument_rate_limit", "get_case_generation_rate_limit"}

\* the stored entries of (u, T) that have not expired at time t
Live(s, u, T, t) ==
    {e \in s : e.user_id = u /\ e.rate_limiter_type = T /\ e.expiration_time > t}

\* the positions of the accepted decisions in a history
AcceptedIn(L) == {i \in 1..Len(L) : L[i].accepted}

\* C1 (quota enforcement): when the __call__ requests of a user come one after
\* another, the first N are accepted, and the (N+1)th, made less than W after
\* the first, is rejected.
QuotaEnforcement ==
    \A u \in Users :
        LET L == log[u][ARG]
        IN \A i \in 1..Len(L) :
              /\ i <= Requests(ARG) => L[i].accepted
              /\ (i = Requests(ARG) + 1 /\ L[i].now < L[1].now + Window(ARG))
                    => ~L[i].accepted

QuotaEnforcementWitness ==
    \E u \in Users :
        LET L == log[u][ARG]
        IN /\ Len(L) > Requests(ARG)
           /\ ~L[Requests(ARG) + 1].accepted
           /\ L[Requests(ARG) + 1].now > L[1].now

\* C2 as stated: in every reachable state the number of stored non-expired
\* entries of a (user, limiter) is at most `requests`.
QuotaNeverExceeded ==
    \A u \in Users, T \in LimiterTypes :
        Cardinality(Live(store, u, T, clock)) <= Requests(T)

\* C2 as amended: the number of stored non-expired entries of a (user, limiter)
\* is at most `requests` as long as no two requests of that user on that
\* limiter have been in flight at the same time.
QuotaKeptWithoutOverlap ==
    \A u \in Users, T \in LimiterTypes :
        <<u, T>> \notin overlapped
            => Cardinality(Live(store, u, T, clock)) <= Requests(T)

QuotaKeptWitness ==
    \E u \in Users, T \in LimiterTypes :
        /\ <<u, T>> \notin overlapped
        /\ Cardinality(Live(store, u, T, clock)) = Requests(T)
        /\ \E p \in Procs : /\ user[p] = u /\ LimiterOf(op[p]) = T
                            /\ pc[p] = "done" /\ result[p].status = 429

\* C3 (the count-then-insert sequence is not atomic): a request that has passed
\* its check inserts its entry whatever the store holds by then; the witness is
\* the state two overlapping requests of one user reach, one entry above quota.
InsertNotConditional ==
    [][\A p \in Procs :
          (pc[p] = "insert" /\ pc'[p] # "insert")
              => /\ new_entry[p] \in store'
                 /\ Cardinality(store') = Cardinality(store) + 1]_vars

OneAboveQuota ==
    \E p, q \in Procs :
        /\ p # q /\ wrote[p] /\ wrote[q]
        /\ user[p] = user[q] /\ op[p] = op[q]
        /\ Cardinality(Live(store, user[p], LimiterOf(op[p]), clock))
              = Requests(LimiterOf(op[p])) + 1

\* C4 (sliding behaviour): after N __call__ requests of a user accepted at time
\* t0, a further one at a time t < t0 + W is rejected, and the next one at a
\* time after t0 + W is accepted.
SlidingBehaviour ==
    \A u \in Users :
        LET L == log[u][ARG]
        IN \A j \in 1..Len(L) : \A t0 \in 0..MaxTime :
              Cardinality({i \in 1..(j - 1) : L[i].accepted /\ L[i].now = t0})
                    = Requests(ARG)
              => /\ L[j].now < t0 + Window(ARG) => ~L[j].accepted
                 /\ ( /\ L[j].now > t0 + Window(ARG)
                      /\ \A i \in 1..(j - 1) : L[i].accepted => L[i].now <= t0 )
                        => L[j].accepted

SlidingBehaviourWitness ==
    \E u \in Users :
        LET L == log[u][ARG]
            n == Requests(ARG)
        IN /\ Len(L) = n + 2
           /\ \A i \in 1..n : L[i].accepted /\ L[i].now = L[1].now
           /\ ~L[n + 1].accepted
           /\ L[n + 2].accepted /\ L[n + 2].now > L[1].now + Window(ARG)

\* the earliest expiration_time among the entries es
EarliestExpiration(es) ==
    (CHOOSE e \in es : \A f \in es : e.expiration_time <= f.expiration_time)
        .expiration_time

\* C5 (wait-time correctness): the wait a request reports (get_remaining_attempts
\* with no attempt left, a rejected check_only or __call__) is the time from its
\* `now` to the earliest expiration_time among the stored non-expired entries of
\* its user and limiter.
WaitIsTimeToEarliestExpiration ==
    [][\A p \in Procs :
          ( /\ pc[p] = "find" /\ pc'[p] = "done" /\ result'[p].has_wait
            /\ Live(store, user[p], LimiterOf(op[p]), now[p]) # {} )
          => result'[p].wait =
                EarliestExpiration(Live(store, user[p], LimiterOf(op[p]), now[p]))
                    - now[p]]_vars

\* C6 (two-phase non-consumption): no step of check_only adds an entry or
\* removes a non-expired one, so the remaining quota is what it was.
CheckOnlyConsumesNothing ==
    [][\A p \in Procs :
          ( /\ op[p] = "generate_new_case" /\ pc[p] \in {"purge", "find"}
            /\ pc'[p] # pc[p] )
          => /\ store' \subseteq store
             /\ \A e \in store \ store' : e.expiration_time <= clock
             /\ ~wrote'[p]]_vars

CheckOnlyPassedWitness ==
    \E p \in Procs :
        /\ op[p] = "generate_new_case" /\ pc[p] = "generate_case"
        /\ Cardinality(Live(store, user[p], GEN, clock)) = Requests(GEN) - 1

\* C7 (no quota consumed on failure): a generate_new_case request has written a
\* RateLimitEntry exactly if it got as far as register_usage, that is, it ends
\* with 201; one that ends with 500 (or 429) has written none.
UsageRegisteredOnlyOnSuccess ==
    \A p \in Procs :
        (op[p] = "generate_new_case" /\ pc[p] = "done")
            => /\ wrote[p] <=> result[p].status = 201
               /\ result[p].status \in {201, 429, 500}

GenerationFailedWitness ==
    \E p \in Procs :
        /\ op[p] = "generate_new_case" /\ pc[p] = "done"
        /\ result[p].status = 500 /\ ~wrote[p]
        /\ Live(store, user[p], GEN, clock) = {}

\* C8 (independence across rate_limiter_type): a step of a request on one
\* limiter leaves the entries of the other type as they are, and what
\* get_remaining_attempts returns depends on the entries of its own type only.
IndependentLimiterTypes ==
    [][\A p \in Procs :
          (pc[p] # "idle" /\ pc'[p] # pc[p])
          => /\ {e \in store' : e.rate_limiter_type # LimiterOf(op[p])}
                  = {e \in store : e.rate_limiter_type # LimiterOf(op[p])}
             /\ (op[p] \in GetOps /\ pc[p] = "find")
                  => result'[p].remaining =
                        Max0(Requests(LimiterOf(op[p]))
                             - Cardinality({e \in store :
                                  /\ e.user_id = user[p]
                                  /\ e.rate_limiter_type = LimiterOf(op[p])}))]_vars

IndependenceWitness ==
    \E p \in Procs :
        /\ op[p] = "get_case_generation_rate_limit" /\ pc[p] = "done"
        /\ result[p].remaining = Requests(GEN)
        /\ Cardinality(Live(store, user[p], ARG, clock)) >= Requests(ARG)

\* C9 (purge-on-read): an entry of the queried (user, type) that was stored and
\* expired when get_remaining_attempts started is not counted in what it
\* returns and is not in the store when it returns.
PurgeOnRead ==
    [][\A p \in Procs :
          (op[p] \in GetOps /\ pc[p] = "find" /\ pc'[p] = "done")
          => /\ expiredAtStart[p] \cap store' = {}
             /\ result'[p].remaining =
                  Max0(Requests(LimiterOf(op[p]))
                       - Cardinality({e \in store \ expiredAtStart[p] :
                            /\ e.user_id = user[p]
                            /\ e.rate_limiter_type = LimiterOf(op[p])}))]_vars

PurgeOnReadWitness ==
    \E p \in Procs :
        /\ op[p] \in GetOps /\ pc[p] = "find"
        /\ expiredAtStart[p] # {}
        /\ expiredAtStart[p] \cap store = {}
        /\ \E e \in expiredAtStart[p] : e.expiration_time = now[p]

\* C10 (remaining-attempts accuracy): after k < N accepted requests of a user on
\* a limiter, none of them expired and none in flight, get_remaining_attempts
\* returns (N - k, None).
RemainingAttemptsAccuracy ==
    [][\A p \in Procs :
          (op[p] \in GetOps /\ pc[p] = "find" /\ pc'[p] = "done")
          => LET T == LimiterOf(op[p])
                 L == log[user[p]][T]
                 k == Cardinality(AcceptedIn(L))
             IN ( /\ k < Requests(T)
                  /\ \A i \in AcceptedIn(L) : L[i].now + Window(T) > now[p] )
                => result'[p] = [status |-> 200, remaining |-> Requests(T) - k,
                                 has_wait |-> FALSE, wait |-> 0,
                                 detail |-> <<>>]]_vars

RemainingAttemptsWitness ==
    \E p \in Procs :
        /\ op[p] \in GetOps /\ pc[p] = "done"
        /\ AcceptedIn(log[user[p]][LimiterOf(op[p])]) # {}
        /\ result[p].remaining > 0
        /\ result[p].remaining < Requests(LimiterOf(op[p]))

\* the routes whose dependency is a quota check
GuardedOps == {"submit_argument", "generate_new_case"}

Stored(u, T) == {e \in store : e.user_id = u /\ e.rate_limiter_type = T}

\* C12 (a rejected __call__ writes nothing): a __call__ that finds `requests`
\* or more entries after its purge ends in the 429 and has written no entry;
\* its purge removed expired entries only, so the non-expired entries of its
\* user and type are the same before and after each of its steps.
RejectedCallWritesNothing ==
    [][\A p \in Procs :
          /\ ( /\ op[p] = "submit_argument" /\ pc[p] = "find" /\ pc'[p] # "find"
               /\ Cardinality(Stored(user[p], ARG)) >= Requests(ARG) )
             => /\ pc'[p] = "done" /\ result'[p].status = 429
                /\ store' = store
                /\ ~wrote'[p]
          /\ (op[p] = "submit_argument" /\ pc[p] = "purge" /\ pc'[p] = "find")
             => /\ store' \subseteq store
                /\ Live(store', user[p], ARG, now[p])
                      = Live(store, user[p], ARG, now[p])]_vars

RejectedCallWitness ==
    \E p \in Procs :
        /\ op[p] = "submit_argument" /\ pc[p] = "done"
        /\ result[p].status = 429 /\ ~wrote[p]
        /\ Cardinality(Stored(user[p], ARG)) >= Requests(ARG)
        /\ \A e \in Stored(user[p], ARG) : e.expiration_time > clock

\* C13 (QuotaExceeded reaches the client as a 429): a check_only or __call__
\* that finds `requests` or more entries ends the request at once with status
\* 429 and a message that holds the duration computed from the wait, oldest
\* timestamp + window - now; no request that ends with 429 has started the
\* route handler its check guards.
QuotaExceededIs429 ==
    [][\A p \in Procs :
          /\ ( /\ op[p] \in GuardedOps /\ pc[p] = "find" /\ pc'[p] # "find"
               /\ Cardinality(Stored(user[p], LimiterOf(op[p])))
                     >= Requests(LimiterOf(op[p])) )
             => LET T == LimiterOf(op[p])
                    w == result'[p].wait
                IN /\ pc'[p] = "done" /\ result'[p].status = 429
                   /\ result'[p].has_wait
                   /\ \E e \in Stored(user[p], T) :
                         /\ \A f \in Stored(user[p], T) : e.timestamp <= f.timestamp
                         /\ w = e.timestamp + Window(T) - now[p]
                   /\ result'[p].detail = DurationStr(TicksPerSecond * w)
          /\ (pc'[p] = "done" /\ result'[p].status = 429)
             => ~ran'[p]]_vars

QuotaExceededWitness ==
    \E p \in Procs :
        /\ op[p] = "generate_new_case" /\ pc[p] = "done"
        /\ result[p].status = 429 /\ ~ran[p]
        /\ result[p].wait > 0
        /\ result[p].detail = <<[n |-> result[p].wait, unit |-> "seconds"]>>

\* C14 (a persistence failure is neither an acceptance nor a 429): a request in
\* which a store step of the limiter raised ends at that step with status 500
\* and no wait; if the step belonged to __call__ or check_only, the route
\* handler they guard has not started.
StoreErrorSurfaces ==
    \A p \in Procs :
        store_error[p] # ""
            => /\ pc[p] = "done"
               /\ result[p].status = 500 /\ ~result[p].has_wait
               /\ (op[p] = "submit_argument" \/ store_error[p] \in {"purge", "find"})
                     => ~ran[p]

StoreErrorWitness ==
    \E p \in Procs :
        /\ op[p] = "submit_argument" /\ store_error[p] = "find"
        /\ result[p].status = 500
        /\ Cardinality(Stored(user[p], ARG)) >= Requests(ARG)

\* C15 (the quota status endpoints): no step of get_argument_rate_limit or
\* get_case_generation_rate_limit adds an entry or removes one that has not
\* expired at its `now`, and the reply has 0 <= remaining_attempts <=
\* max_attempts, max_attempts being the `requests` of the limiter, also when
\* more than `requests` entries are stored.
StatusEndpointsReadOnly ==
    [][\A p \in Procs :
          (op[p] \in GetOps /\ pc[p] \in {"purge", "find"} /\ pc'[p] # pc[p])
          => /\ store' \subseteq store
             /\ \A e \in store \ store' : e.expiration_time <= now[p]
             /\ pc'[p] = "done"
                  => /\ result'[p].status = 200
                     /\ result'[p].remaining >= 0
                     /\ result'[p].remaining <= Requests(LimiterOf(op[p]))]_vars

StatusAboveQuotaWitness ==
    \E p \in Procs :
        /\ op[p] \in GetOps /\ pc[p] = "done"
        /\ result[p].status = 200 /\ result[p].remaining = 0
        /\ Cardinality(Stored(user[p], LimiterOf(op[p])))
              > Requests(LimiterOf(op[p]))

\* the instant of a timestamp, a naive one taken as UTC
Instant(dt) == IF dt.aware THEN dt.wall - dt.utcoffset ELSE dt.wall

\* the wait from the oldest of the timestamps ts, all normalized first
NormalizedWait(ts, W, t) ==
    (CHOOSE i \in {Instant(ts[k]) : k \in 1..Len(ts)} :
        \A k \in 1..Len(ts) : i <= Instant(ts[k])) + W - t

PartsOf(u) == {k \in 1..Len(duration_str) : duration_str[k].unit = u}

Printed(u) ==
    IF PartsOf(u) = {} THEN 0 ELSE duration_str[CHOOSE k \in PartsOf(u) : TRUE].n

\* C17 (the duration in the message): for a wait w >= 0 the printed hours,
\* minutes and seconds give hours * 3600 + minutes * 60 + seconds = floor(w)
\* with minutes and seconds in 0..59; the hours are printed only when above 0,
\* the minutes only when above 0, the seconds always and last, each part once
\* and in this order.
DurationBreakdown ==
    (duration_str # <<>> /\ time_until_reset >= 0)
        => /\ Printed("hours") * SecondsPerHour
                + Printed("minutes") * SecondsPerMinute + Printed("seconds")
                    = time_until_reset \div TicksPerSecond
           /\ Printed("minutes") >= 0 /\ Printed("minutes") < SecondsPerMinute
           /\ Printed("seconds") >= 0 /\ Printed("seconds") < SecondsPerMinute
           /\ \A k \in PartsOf("hours") \cup PartsOf("minutes") :
                 duration_str[k].n > 0
           /\ PartsOf("seconds") = {Len(duration_str)}
           /\ \A k \in PartsOf("hours") : k = 1
           /\ \A k \in PartsOf("minutes") : k = Len(duration_str) - 1
           /\ Len(duration_str) <= 3

DurationWitness ==
    /\ duration_str = <<[n |-> 1, unit |-> "hours"], [n |-> 12, unit |-> "minutes"],
                        [n |-> 4, unit |-> "seconds"]>>
    /\ time_until_reset % TicksPerSecond # 0

\* C18 (purge-before-count under interleaving): the entries a request counts,
\* those its find returns, include no entry whose expiration_time is at or
\* before the `now` of the request, in every interleaving.
NoExpiredEntryCounted ==
    [][\A p \in Procs :
          (pc[p] = "find" /\ pc'[p] # "find")
          => \A e \in Stored(user[p], LimiterOf(op[p])) :
                e.expiration_time > now[p]]_vars

\* C19 (expiration_time = timestamp + window): every stored entry expires one
\* window after its timestamp, the time of its creation.
ExpirationIsTimestampPlusWindow ==
    \A e \in store :
        e.expiration_time = e.timestamp + Window(e.rate_limiter_type)

\* C20 (an entry counts for exactly one window from its creation): a check or
\* query counts every entry of its user and type that was stored when it
\* started and whose timestamp + window is after its `now`, and counts no
\* entry whose timestamp + window is at or before its `now`.
EntryCountsForWindow ==
    [][\A p \in Procs :
          (pc[p] = "find" /\ pc'[p] # "find")
          => LET T == LimiterOf(op[p])
             IN /\ \A e \in expiredAtStart[p] \ store :
                      now[p] >= e.timestamp + Window(T)
                /\ \A e \in Stored(user[p], T) :
                      now[p] < e.timestamp + Window(T)]_vars

\* C21 (seconds_until_next is None iff remaining > 0), as stated: a result of
\* get_remaining_attempts has no wait exactly when remaining > 0, whatever the
\* configured quota and the entries found.
WaitIffNoneRemaining ==
    attempts.done => (~attempts.has_wait <=> attempts.remaining > 0)

\* What get_remaining_attempts gives for every quota: a wait exactly when
\* remaining is 0 and an entry was found; so for a quota of at least 1 the wait
\* is None if and only if remaining > 0.
WaitIffNoneRemainingAndEntries ==
    attempts.done =>
        /\ ~attempts.raised
        /\ attempts.has_wait <=> (attempts.remaining = 0 /\ current_entries # <<>>)
        /\ requests >= 1 => (~attempts.has_wait <=> attempts.remaining > 0)

WaitWitness ==
    /\ attempts.done /\ requests >= 1 /\ Len(current_entries) > requests
    /\ attempts.remaining = 0 /\ attempts.has_wait /\ attempts.wait > 0

\* C22 (entries are immutable after creation): between two states every entry
\* is unchanged or gone: a step either only removes entries, or keeps every
\* stored entry as it is and adds the one entry a request has just constructed.
EntriesImmutable ==
    [][\/ store' \subseteq store
       \/ /\ store \subseteq store'
          /\ \E p \in Procs :
                /\ pc[p] = "insert"
                /\ new_entry[p] \notin store
                /\ store' = store \cup {new_entry[p]}]_vars

\* a request has inserted its entry beside an entry of the same user and
\* limiter that was stored before
EntryKeptWitness ==
    \E p \in Procs :
        /\ pc[p] = "done" /\ wrote[p]
        /\ Cardinality(FindEntries(store, user[p], LimiterOf(op[p]))) >= 2

\* C23 (register_usage is unconditional): every call of register_usage, that
\* is, every generate_new_case whose case.insert() returned, constructs one
\* entry of its user and limiter with expiration_time = now + window, removes
\* no entry, and inserts that entry whatever the store holds, the user's
\* `requests` or more non-expired entries included.
RegisterUsageUnconditional ==
    [][\A p \in Procs :
          /\ (pc[p] = "case_insert" /\ pc'[p] # "case_insert")
             => \/ pc'[p] = "done" /\ result'[p].status = 500 /\ store' = store
                \/ /\ pc'[p] = "insert"
                   /\ store' = store
                   /\ new_entry'[p].user_id = user[p]
                   /\ new_entry'[p].rate_limiter_type = GEN
                   /\ new_entry'[p].expiration_time = clock + Window(GEN)
          /\ (op[p] = "generate_new_case" /\ pc[p] = "insert" /\ pc'[p] # "insert")
             => /\ store' = store \cup {new_entry[p]}
                /\ new_entry[p] \notin store
                /\ pc'[p] = "done" /\ result'[p].status = 201]_vars

\* register_usage has inserted an entry although the user had `requests`
\* non-expired entries already
UsageRegisteredAboveQuota ==
    \E p \in Procs :
        /\ op[p] = "generate_new_case" /\ pc[p] = "done"
        /\ result[p].status = 201 /\ wrote[p]
        /\ Cardinality(Live(store, user[p], GEN, clock)) > Requests(GEN)

\* C24 (expiry happens only on access): an entry leaves the store only in the
\* purge step of a request of its own user and limiter type, and only if its
\* expiration_time is at or before that request's `now`; an entry is added only
\* by the insert of a request of its own user; the passing of time changes no
\* entry, and a step of a request leaves the entries of every other user as
\* they are.
ExpiryOnlyOnAccess ==
    [][/\ \A e \in store \ store' :
             \E p \in Procs :
                /\ pc[p] = "purge" /\ pc'[p] = "find"
                /\ user[p] = e.user_id
                /\ LimiterOf(op[p]) = e.rate_limiter_type
                /\ e.expiration_time <= now[p]
       /\ \A e \in store' \ store :
             \E p \in Procs :
                /\ pc[p] = "insert" /\ pc'[p] # "insert"
                /\ user[p] = e.user_id
                /\ LimiterOf(op[p]) = e.rate_limiter_type
       /\ clock' # clock => store' = store
       /\ \A p \in Procs :
             pc'[p] # pc[p]
                => {e \in store' : e.user_id # user[p]}
                      = {e \in store : e.user_id # user[p]}]_vars

\* an entry is still stored after it has expired, time has passed since, and
\* a request of another user on the same limiter has run its purge with a
\* `now` at which the entry was expired
ExpiredEntryKeptWitness ==
    \E e \in store :
        /\ e.expiration_time < clock
        /\ \E p \in Procs :
              /\ pc[p] = "find" /\ user[p] # e.user_id
              /\ LimiterOf(op[p]) = e.rate_limiter_type
              /\ now[p] >= e.expiration_time

\* C25 (bounded overshoot): with at most K requests of a user on a limiter in
\* flight at once, the stored non-expired entries of that user and limiter
\* never exceed requests + K - 1, for the argument limiter (__call__) and for
\* the case-generation limiter (check_only, register_usage) alike.  K is 1
\* while no two requests of the pair have overlapped, and at most NumProcs.
BoundedOvershoot ==
    \A u \in Users, T \in LimiterTypes :
        Cardinality(Live(store, u, T, clock))
            <= Requests(T) + (IF <<u, T>> \in overlapped THEN NumProcs ELSE 1) - 1

\* every request has returned, and a user stands above the quota of a limiter
\* on which requests of theirs overlapped
OvershootWitness ==
    /\ \A p \in Procs : pc[p] = "idle"
    /\ \E u \in Users, T \in LimiterTypes :
          /\ <<u, T>> \in overlapped
          /\ Cardinality(Live(store, u, T, clock)) > Requests(T)

\* C26 (the argument limiter's quota is consumed before the handler runs): a
\* submit_argument or submit_closing_statement request that passes the check
\* inserts exactly one entry, and has inserted it when its handler starts;
\* the handler, whether it ends in 404, 403 or 400, in a reply that carries
\* the LLM's error, or in success, adds no entry and removes none.
QuotaConsumedBeforeHandler ==
    [][\A p \in Procs :
          op[p] = "submit_argument"
          => /\ (pc[p] = "find" /\ pc'[p] # "find")
                  => /\ store' = store
                     /\ pc'[p] \in {"insert", "done"}
                     /\ pc'[p] = "done" => result'[p].status = 429
             /\ (pc[p] = "insert" /\ pc'[p] # "insert")
                  => /\ pc'[p] = "handler"
                     /\ new_entry[p] \notin store
                     /\ store' = store \cup {new_entry[p]}
                     /\ ~wrote[p] /\ wrote'[p]
             /\ (pc[p] = "handler" /\ pc'[p] # "handler")
                  => /\ wrote[p]
                     /\ store' = store
                     /\ pc'[p] = "done"
                     /\ result'[p].status \in {200, 400, 403, 404}]_vars

\* a request whose handler ended in an error has its entry stored, unexpired
HandlerFailedWitness ==
    \E p \in Procs :
        /\ op[p] = "submit_argument" /\ pc[p] = "done"
        /\ result[p].status \in {400, 403, 404} /\ wrote[p]
        /\ Cardinality(Live(store, user[p], ARG, clock)) >= 1

\* C27 (a rejection reports a positive wait): whenever check_only or __call__
\* rejects a request, the wait it reports, measured from the `now` it read at
\* its start, is strictly positive, under any interleaving.
RejectedWaitPositive ==
    \A p \in Procs :
        (op[p] \in GuardedOps /\ pc[p] = "done" /\ result[p].status = 429)
            => result[p].has_wait /\ result[p].wait > 0

\* C28 (a dismissal is durable): once dismiss_witness or conclude_witness has
\* returned success, the stored case has no current_witness_id and every
\* testimony of it keeps its ended_at, until a request calls a witness again;
\* also while a background cross-examination runs and saves its copy.
DismissalDurable ==
    dismissed
        => /\ stored_case.current_witness_id = 0
           /\ \A i \in 1..Len(stored_case.witness_testimonies) :
                 stored_case.witness_testimonies[i].ended

\* the background tasks of the case that have been scheduled and have not ended
ActiveTasks == {t \in Tasks : tpc[t] # "idle"}

\* C29 (one cross-examination at a time): at most one
\* process_ai_cross_examination task is active on the case, whatever the
\* interleaving of the requests.
AtMostOneTask == Cardinality(ActiveTasks) <= 1

\* C30 (is_ai_examining is cleared in the end): whenever is_ai_examining is
\* set in the stored case, it is False at some later time, and once False it
\* is set again only by the save of an ai_cross_examine_witness request.
FlagClearedAndStays ==
    /\ stored_case.is_ai_examining ~> ~stored_case.is_ai_examining
    /\ [][(~stored_case.is_ai_examining /\ stored_case'.is_ai_examining)
            => \E h \in Handlers : /\ hop[h] = "ai_cross_examine_witness"
                                   /\ hpc[h] = "save" /\ hpc'[h] = "done"]_vars

=============================================================================
